---- MODULE Spec2Model ----
(***************************************************************************)
(* A model of the RAG / LLM comparison services:                           *)
(*   - CitationService (src/domain/services/citation_service.py)           *)
(*   - RAGService, LLMService (src/domain/services/{rag,llm}_service.py)   *)
(*   - RAGEvaluationService (src/domain/services/evaluation_service.py)    *)
(*                                                                         *)
(* Texts are modelled by their shape: an identity, the number of leading   *)
(* whitespace characters, the number of characters of the stripped core    *)
(* and the number of trailing whitespace characters. Scores are modelled   *)
(* in ten-thousandths (0.8 is 8000).                                      *)
(***************************************************************************)
EXTENDS Integers, Sequences, FiniteSets, TLC

VARIABLES
    citation_counter,   \* CitationService.citation_counter
    issued,             \* citations returned by create_citation since the last reset_counter
    wasReset,           \* reset_counter has been called at least once
    counterAtReset,     \* value of citation_counter when reset_counter was last called
    cpc,                \* concurrent answers: position of each builder
    cdocs,              \* concurrent answers: number of documents of each builder
    ctmp,               \* concurrent answers: value loaded by "citation_counter += 1"
    ccits,              \* concurrent answers: citation numbers each builder obtained
    s_question,         \* scoring pass called directly: the question
    s_answer,           \* scoring pass called directly: the answer text
    s_contexts,         \* scoring pass called directly: rag_data['contexts']
    s_pass,             \* "ready", "rag" or "llm": which pass has returned
    s_outs,             \* what the metric backend did for each metric in that pass
    s_scores,           \* the ScoreSet the pass returned
    s_calls,            \* the evaluate() invocations of the pass, in order
    v_rag,              \* verdict functions called directly: the RAG ScoreSet
    v_llm,              \* verdict functions called directly: the LLM ScoreSet
    v_op,               \* which verdict function has returned ("ready" before)
    v_out,              \* what it returned
    r_method,           \* answer services called directly: the method that returned ("ready" before)
    r_retr,             \* what the retriever did in that call (<<>> when not queried)
    r_llm,              \* what the model did in that call (<<>> when not invoked)
    r_result,           \* what the method returned
    e_stage,            \* evaluate_single_question: the stage about to run
    e_rag_data,         \* rag_data = {'answer', 'contexts'}
    e_llm_answer,       \* llm_answer
    e_rag_scores,       \* rag_scores
    e_llm_scores,       \* llm_scores
    e_outs,             \* what the metric backend did: <<RAG pass, LLM pass>>
    e_result,           \* the result dict as far as it is built
    e_queries,          \* the retriever queries made so far, with what they returned
    e_prompts,          \* the model invocations made so far (documents in the prompt)
    e_calls,            \* the evaluate() invocations made so far
    e_invs              \* what each model invocation did, in the order of e_prompts

citVars == <<citation_counter, issued, wasReset, counterAtReset>>
concVars == <<cpc, cdocs, ctmp, ccits>>
scoreVars == <<s_question, s_answer, s_contexts, s_pass, s_outs, s_scores, s_calls>>
\* everything the citation actions leave alone
verdictVars == <<v_rag, v_llm, v_op, v_out>>
svcVars == <<r_method, r_retr, r_llm, r_result>>
evalVars == <<e_stage, e_rag_data, e_llm_answer, e_rag_scores, e_llm_scores, e_outs,
              e_result, e_queries, e_prompts, e_calls, e_invs>>
nonCitVars == <<scoreVars, verdictVars, svcVars, evalVars>>
\* everything the scoring actions leave alone
nonScoreVars == <<citVars, concVars, verdictVars, svcVars, evalVars>>
\* everything the verdict actions leave alone
nonVerdictVars == <<citVars, concVars, scoreVars, svcVars, evalVars>>
\* everything the answer services leave alone
nonSvcVars == <<citVars, concVars, scoreVars, verdictVars, evalVars>>
\* everything evaluate_single_question leaves alone
nonEvalVars == <<citVars, concVars, scoreVars, verdictVars, svcVars>>
vars == <<citation_counter, issued, wasReset, counterAtReset, cpc, cdocs, ctmp, ccits,
          s_question, s_answer, s_contexts, s_pass, s_outs, s_scores, s_calls,
          v_rag, v_llm, v_op, v_out,
          r_method, r_retr, r_llm, r_result,
          e_stage, e_rag_data, e_llm_answer, e_rag_scores, e_llm_scores, e_outs,
          e_result, e_queries, e_prompts, e_calls, e_invs>>

----------------------------------------------------------------------------
(* Bounds of the model *)

\* cap of citation_counter in the sequential client
MaxCounter == 4
\* most documents one concurrently built answer cites
MaxDocs == 2

----------------------------------------------------------------------------
(* Texts *)

\* a text named id (the names of the parts it was put together from)
Txt(id, lead, core, trail) == [id |-> <<id>>, lead |-> lead, core |-> core, trail |-> trail]

\* len(s)
TextLen(t) == t.lead + t.core + t.trail

\* s.strip()
Strip(t) == [t EXCEPT !.lead = 0, !.trail = 0]

\* "not s"
IsEmptyText(t) == TextLen(t) = 0

\* a + b (an f-string of two parts); a text without a core keeps its blanks in "lead"
Concat(a, b) ==
    [id |-> a.id \o b.id,
     lead |-> IF a.core = 0 THEN TextLen(a) + b.lead + (IF b.core = 0 THEN b.trail ELSE 0)
              ELSE a.lead,
     core |-> IF a.core = 0 THEN b.core
              ELSE IF b.core = 0 THEN a.core
              ELSE a.core + a.trail + b.lead + b.core,
     trail |-> IF b.core = 0 THEN (IF a.core = 0 THEN 0 ELSE a.trail + TextLen(b))
               ELSE b.trail]

----------------------------------------------------------------------------
(* Documents handed to CitationService *)

\* a document whose metadata has both source and page
DocFull == [metadata |-> [source |-> <<"assets", "relatorio.pdf">>, page |-> 0],
            page_content |-> Txt("relatorio", 0, 40, 0)]
\* a document whose metadata has a source but no page
DocNoPage == [metadata |-> [source |-> <<"manual.pdf">>],
              page_content |-> Txt("manual", 1, 11, 1)]
\* a document with empty metadata
DocNoMeta == [metadata |-> <<>>,
              page_content |-> Txt("anon", 0, 10, 0)]

CitedDocs == {DocFull, DocNoPage, DocNoMeta}

HasKey(d, k) == k \in DOMAIN d.metadata

\* CitationService._extract_filename: last component of the source path
ExtractFilename(d) ==
    IF HasKey(d, "source")
    THEN d.metadata.source[Len(d.metadata.source)]
    ELSE "documento_desconhecido.pdf"

\* CitationService._extract_page_number: metadata page + 1, else 1
ExtractPageNumber(d) ==
    IF HasKey(d, "page") THEN d.metadata.page + 1 ELSE 1

----------------------------------------------------------------------------
(* CitationService, one caller *)

Builders == {1, 2}

\* a create_citation that forgets to advance the counter
CounterAfterCreate_Stuck(c) == c

\* CitationService.create_citation: self.citation_counter += 1
CounterAfterCreate(c) == c + 1

\* CitationService.reset_counter
ResetCounter ==
    /\ citation_counter' = 0
    /\ issued' = <<>>
    /\ wasReset' = TRUE
    /\ counterAtReset' = citation_counter
    /\ UNCHANGED concVars
    /\ UNCHANGED nonCitVars

\* CitationService.create_citation(source_document, chunk_content)
CreateCitation(d) ==
    /\ citation_counter < MaxCounter
    /\ citation_counter' = CounterAfterCreate(citation_counter)
    /\ issued' = Append(issued,
                        [number |-> citation_counter',
                         filename |-> ExtractFilename(d),
                         page |-> ExtractPageNumber(d),
                         chunk_content |-> d.page_content])
    /\ UNCHANGED <<wasReset, counterAtReset>>
    /\ UNCHANGED concVars
    /\ UNCHANGED nonCitVars

InitCitation ==
    /\ citation_counter = 0
    /\ issued = <<>>
    /\ wasReset = FALSE
    /\ counterAtReset = 0

InitConc ==
    /\ cpc = [b \in Builders |-> "idle"]
    /\ cdocs = [b \in Builders |-> 0]
    /\ ctmp = [b \in Builders |-> 0]
    /\ ccits = [b \in Builders |-> <<>>]

InitScoreIdle ==
    /\ s_question = Txt("q", 0, 0, 0)
    /\ s_answer = Txt("a", 0, 0, 0)
    /\ s_contexts = <<>>
    /\ s_pass = "ready"
    /\ s_outs = <<>>
    /\ s_scores = <<>>
    /\ s_calls = <<>>

InitVerdictIdle ==
    /\ v_rag = <<>>
    /\ v_llm = <<>>
    /\ v_op = "ready"
    /\ v_out = <<>>

InitSvc ==
    /\ r_method = "ready"
    /\ r_retr = <<>>
    /\ r_llm = <<>>
    /\ r_result = <<>>

\* evaluate_single_question has been entered
InitEval ==
    /\ e_stage = "COLLECT_RAG_DATA"
    /\ e_rag_data = <<>>
    /\ e_llm_answer = <<>>
    /\ e_rag_scores = <<>>
    /\ e_llm_scores = <<>>
    /\ e_outs = <<>>
    /\ e_result = <<>>
    /\ e_queries = <<>>
    /\ e_prompts = <<>>
    /\ e_calls = <<>>
    /\ e_invs = <<>>

Init == InitCitation /\ InitConc /\ InitScoreIdle /\ InitVerdictIdle /\ InitSvc /\ InitEval

NextCitation ==
    \/ ResetCounter
    \/ \E d \in CitedDocs : CreateCitation(d)

SpecCitation == Init /\ [][NextCitation]_vars

----------------------------------------------------------------------------
(* CitationService, two answers built concurrently on one instance.        *)
(* Each answer calls reset_counter() and then create_citation once per     *)
(* document; "self.citation_counter += 1" is a load followed by a store,   *)
(* and the number is read again when the Citation is constructed.          *)

\* an answer over n documents starts on builder b
BeginAnswer(b, n) ==
    /\ cpc[b] \in {"idle", "done"}
    /\ cpc' = [cpc EXCEPT ![b] = "reset"]
    /\ cdocs' = [cdocs EXCEPT ![b] = n]
    /\ ccits' = [ccits EXCEPT ![b] = <<>>]
    /\ UNCHANGED <<ctmp>>
    /\ UNCHANGED citVars
    /\ UNCHANGED nonCitVars

\* reset_counter() called by builder b
BuilderReset(b) ==
    /\ cpc[b] = "reset"
    /\ citation_counter' = 0
    /\ cpc' = [cpc EXCEPT ![b] = "load"]
    /\ UNCHANGED <<cdocs, ctmp, ccits, issued, wasReset, counterAtReset>>
    /\ UNCHANGED nonCitVars

\* create_citation, line 19: load of self.citation_counter
BuilderLoad(b) ==
    /\ cpc[b] = "load"
    /\ ctmp' = [ctmp EXCEPT ![b] = citation_counter]
    /\ cpc' = [cpc EXCEPT ![b] = "store"]
    /\ UNCHANGED <<cdocs, ccits>>
    /\ UNCHANGED citVars
    /\ UNCHANGED nonCitVars

\* create_citation, line 19: store of the incremented value
BuilderStore(b) ==
    /\ cpc[b] = "store"
    /\ ctmp[b] < MaxCounter
    /\ citation_counter' = CounterAfterCreate(ctmp[b])
    /\ cpc' = [cpc EXCEPT ![b] = "construct"]
    /\ UNCHANGED <<cdocs, ctmp, ccits, issued, wasReset, counterAtReset>>
    /\ UNCHANGED nonCitVars

\* create_citation, lines 24-29: Citation(number=self.citation_counter, ...)
BuilderConstruct(b) ==
    /\ cpc[b] = "construct"
    /\ ccits' = [ccits EXCEPT ![b] = Append(@, citation_counter)]
    /\ cpc' = [cpc EXCEPT ![b] = IF Len(ccits[b]) + 1 = cdocs[b] THEN "done" ELSE "load"]
    /\ UNCHANGED <<cdocs, ctmp>>
    /\ UNCHANGED citVars
    /\ UNCHANGED nonCitVars

NextConcurrent ==
    \/ \E b \in Builders, n \in 1..MaxDocs : BeginAnswer(b, n)
    \/ \E b \in Builders : BuilderReset(b)
    \/ \E b \in Builders : BuilderLoad(b)
    \/ \E b \in Builders : BuilderStore(b)
    \/ \E b \in Builders : BuilderConstruct(b)

SpecConcurrent == Init /\ [][NextConcurrent]_vars

----------------------------------------------------------------------------
(* RAGEvaluationService: the two scoring passes                            *)

\* self.metrics, in insertion order
MetricOrder == <<"faithfulness", "answer_relevancy", "context_precision">>
Metrics == {MetricOrder[i] : i \in 1..Len(MetricOrder)}

\* order in which _evaluate_rag_response computes the metrics
RagEvalOrder == <<"answer_relevancy", "faithfulness", "context_precision">>

\* len(answer) < 10
MinAnswerLen == 10
\* len(ctx.strip()) > 10
MinContextLen == 10

\* What one evaluate(dataset, metrics=[m]) call can do:
\*   raise       it raises
\*   no_table    the result has no to_pandas
\*   no_column   the table has no column named after the metric
\*   none / nan  the cell is None / NaN
\*   num         the cell is the number v (ten-thousandths)
Outcome(kind, v) == [kind |-> kind, v |-> v]

\* {metric: 0.0 for metric in self.metrics.keys()}
ZeroScores == [m \in Metrics |-> 0]

\* the short-answer check without the strip
AnswerTooShort_Raw(raw) == IsEmptyText(raw) \/ TextLen(raw) < MinAnswerLen

\* answer = ....strip(); if not answer or len(answer) < 10
AnswerTooShort(raw) == IsEmptyText(Strip(raw)) \/ TextLen(Strip(raw)) < MinAnswerLen

\* "if ctx and len(ctx.strip()) > 10"
ContextKept(ctx) == ~IsEmptyText(ctx) /\ TextLen(Strip(ctx)) > MinContextLen

RECURSIVE CleanContexts(_)
\* [ctx.strip() for ctx in contexts if ctx and len(ctx.strip()) > 10]
CleanContexts(contexts) ==
    IF contexts = <<>> THEN <<>>
    ELSE LET rest == CleanContexts(Tail(contexts))
         IN IF ContextKept(Head(contexts)) THEN <<Strip(Head(contexts))>> \o rest ELSE rest

\* score_value is not None and score_value == score_value and score_value >= 0
ValueIsValid(o) == o.kind = "num" /\ o.v >= 0

\* one metric's try block: the entry it writes into scores, if any
MetricEntry(o) ==
    CASE o.kind = "raise" -> [set |-> TRUE, v |-> 0]
      [] o.kind = "no_table" -> [set |-> FALSE, v |-> 0]
      [] o.kind = "no_column" -> [set |-> TRUE, v |-> 0]
      [] ValueIsValid(o) -> [set |-> TRUE, v |-> o.v]
      [] OTHER -> [set |-> TRUE, v |-> 0]

\* the three metrics inside one shared try block: the first raise ends the
\* block and every metric not yet written is lost
MetricScores_SharedTry(outs) ==
    LET raisedBefore(i) == \E j \in 1..i : outs[RagEvalOrder[j]].kind = "raise"
        written == {i \in 1..Len(RagEvalOrder) :
                        ~raisedBefore(i) /\ MetricEntry(outs[RagEvalOrder[i]]).set}
    IN [m \in {RagEvalOrder[i] : i \in written} |-> MetricEntry(outs[m]).v]

\* the three per-metric try blocks of _evaluate_rag_response
MetricScores(outs) ==
    LET written == {m \in Metrics : MetricEntry(outs[m]).set}
    IN [m \in written |-> MetricEntry(outs[m]).v]

\* the closing loop left out
FillMissing_Skip(scores) == scores

\* for metric in self.metrics.keys(): if metric not in scores: scores[metric] = 0.0
FillMissing(scores) ==
    [m \in Metrics |-> IF m \in DOMAIN scores THEN scores[m] ELSE 0]

\* the evaluate() invocations of a RAG pass that reaches the metrics
RagCalls(question, answer, contexts) ==
    [i \in 1..Len(RagEvalOrder) |->
        [metric |-> RagEvalOrder[i], question |-> Strip(question),
         answer |-> answer, contexts |-> contexts]]

\* RAGEvaluationService._evaluate_rag_response
EvaluateRagResponse(question, rag_data, outs) ==
    LET answer == Strip(rag_data.answer)
        cleaned == CleanContexts(rag_data.contexts)
    IN IF AnswerTooShort(rag_data.answer)
       THEN [scores |-> ZeroScores, calls |-> <<>>]
       ELSE IF rag_data.contexts = <<>>
       THEN [scores |-> ZeroScores, calls |-> <<>>]
       ELSE IF cleaned = <<>>
       THEN [scores |-> ZeroScores, calls |-> <<>>]
       ELSE [scores |-> FillMissing(MetricScores(outs)),
             calls |-> RagCalls(question, answer, cleaned)]

\* RAGEvaluationService._evaluate_llm_response
EvaluateLlmResponse(question, llm_answer, o) ==
    LET answer == Strip(llm_answer)
        e == MetricEntry(o)
    IN IF AnswerTooShort(llm_answer)
       THEN [scores |-> [m \in {"answer_relevancy"} |-> 0], calls |-> <<>>]
       ELSE [scores |-> [m \in {"answer_relevancy"} |-> IF e.set THEN e.v ELSE 0],
             calls |-> <<[metric |-> "answer_relevancy", question |-> Strip(question),
                          answer |-> answer, contexts |-> <<>>]>>]

(* Inputs of the scoring passes *)

RawNumbers == {0 - 2500, 4500, 10000, 15000}

BackendOutcomes ==
    {Outcome(k, 0) : k \in {"raise", "no_table", "no_column", "none", "nan"}}
        \cup {Outcome("num", x) : x \in RawNumbers}

AnswerTexts ==
    {Txt("a", 0, 0, 0), Txt("a", 12, 0, 0), Txt("a", 0, 9, 0),
     Txt("a", 0, 10, 0), Txt("a", 3, 8, 2), Txt("a", 2, 11, 1)}

ContextTexts == {Txt("c1", 2, 9, 1), Txt("c2", 1, 10, 1), Txt("c3", 0, 11, 0)}

RECURSIVE SeqsUpTo(_, _)
\* the sequences over S of length at most n
SeqsUpTo(S, n) ==
    IF n = 0 THEN {<<>>}
    ELSE LET shorter == SeqsUpTo(S, n - 1)
         IN shorter \cup {Append(q, x) : q \in {r \in shorter : Len(r) = n - 1}, x \in S}

InitScoring ==
    /\ s_question \in {Txt("q", 0, 30, 1)}
    /\ s_answer \in AnswerTexts
    /\ s_contexts \in SeqsUpTo(ContextTexts, MaxDocs)
    /\ s_pass = "ready"
    /\ s_outs = <<>>
    /\ s_scores = <<>>
    /\ s_calls = <<>>

\* a call of _evaluate_rag_response(question, rag_data)
CallEvaluateRag ==
    /\ s_pass = "ready"
    /\ \E outs \in [Metrics -> BackendOutcomes] :
          LET r == EvaluateRagResponse(s_question,
                       [answer |-> s_answer, contexts |-> s_contexts], outs)
          IN /\ s_outs' = IF r.calls = <<>> THEN <<>> ELSE outs
             /\ s_scores' = r.scores
             /\ s_calls' = r.calls
    /\ s_pass' = "rag"
    /\ UNCHANGED <<s_question, s_answer, s_contexts>>
    /\ UNCHANGED nonScoreVars

\* a call of _evaluate_llm_response(question, llm_answer)
CallEvaluateLlm ==
    /\ s_pass = "ready"
    /\ \E o \in BackendOutcomes :
          LET r == EvaluateLlmResponse(s_question, s_answer, o)
          IN /\ s_outs' = IF r.calls = <<>> THEN <<>>
                          ELSE [m \in {"answer_relevancy"} |-> o]
             /\ s_scores' = r.scores
             /\ s_calls' = r.calls
    /\ s_pass' = "llm"
    /\ UNCHANGED <<s_question, s_answer, s_contexts>>
    /\ UNCHANGED nonScoreVars

NextScoring == CallEvaluateRag \/ CallEvaluateLlm

InitScoringPass ==
    InitCitation /\ InitConc /\ InitScoring /\ InitVerdictIdle /\ InitSvc /\ InitEval

SpecScoring == InitScoringPass /\ [][NextScoring]_vars

----------------------------------------------------------------------------
(* RAGService and LLMService                                               *)

\* A model response: shape "str" (text is the string), "message" (an object
\* with a content attribute, text is that content), "dict" (d maps its keys;
\* text is str(response)) or "other" (text is str(response)).
Resp(shape, text, d) == [shape |-> shape, text |-> text, d |-> d]

\* isinstance(response, dict) and key in response
DictHas(r, key) == r.shape = "dict" /\ key \in DOMAIN r.d

\* LLMService._extract_text
LlmExtractText(r) ==
    IF r.shape = "str" THEN r.text
    ELSE IF r.shape = "message" THEN r.text
    ELSE IF DictHas(r, "answer") THEN r.d["answer"]
    ELSE IF DictHas(r, "content") THEN r.d["content"]
    ELSE IF DictHas(r, "text") THEN r.d["text"]
    ELSE r.text

RECURSIVE RagExtractText(_)
\* RAGService._extract_text
RagExtractText(r) ==
    IF r.shape = "str" THEN r.text
    ELSE IF r.shape = "message" THEN r.text
    ELSE IF DictHas(r, "result") THEN RagExtractText(r.d["result"])
    ELSE IF DictHas(r, "answer") THEN r.d["answer"]
    ELSE IF DictHas(r, "content") THEN r.d["content"]
    ELSE IF DictHas(r, "text") THEN r.d["text"]
    ELSE r.text

\* "Erro ao processar pergunta: " + str(e)
ErroAoProcessar(msg) == Concat(Txt("Erro ao processar pergunta:", 0, 27, 1), msg)

\* "Erro: formato invalido retornado pelo retriever"
ErroFormato == Txt("Erro: formato invalido retornado pelo retriever", 0, 47, 0)

\* str(e) of the AttributeError raised by doc.page_content on a character of a string
NoPageContent == Txt("'str' object has no attribute 'page_content'", 0, 44, 0)

\* What one retriever query (invoke or get_relevant_documents) does: kind
\* "docs" (docs is the sequence returned), "string" (text is the non-empty
\* string returned), "raise" (an exception other than AttributeError, text is
\* str(e)), "attr_error" (the query raises AttributeError, text is str(e)) or
\* "no_method" (the retriever has no such method: nothing is queried).
Retrieval(kind, docs, text) == [kind |-> kind, docs |-> docs, text |-> text]

\* try: docs = retriever.invoke(question)
\* except AttributeError: docs = retriever.get_relevant_documents(question)
\* first is what invoke does, again what get_relevant_documents does when called
Attempt(first, again) == [first |-> first, again |-> again]

\* the AttributeError handler runs
FallsBack(a) == a.first.kind \in {"attr_error", "no_method"}

\* what the try statement ends with: docs, or the exception that leaves it
QueryOutcome(a) == IF FallsBack(a) THEN a.again ELSE a.first

\* the queries the retriever received, in order
QueriesMade(a) ==
    (IF a.first.kind = "no_method" THEN <<>> ELSE <<a.first>>)
        \o (IF FallsBack(a) THEN <<a.again>> ELSE <<>>)

\* the query left the try statement with an exception
QueryRaised(retr) == retr.kind \in {"raise", "attr_error"}

\* What a model invocation does: kind "response" (resp) or "raise" (text is str(e)).
Invocation(kind, resp, text) == [kind |-> kind, resp |-> resp, text |-> text]

\* the page_content of each document, in order
PageContents(docs) == [i \in 1..Len(docs) |-> docs[i].page_content]

\* an answer_question without the isinstance(docs, str) test: whatever the
\* retriever returned goes into the prompt and the model is invoked
AnswerQuestion_NoTypeCheck(a, llm) ==
    LET retr == QueryOutcome(a)
    IN IF QueryRaised(retr)
       THEN [answer |-> ErroAoProcessar(retr.text), queries |-> QueriesMade(a),
             prompts |-> <<>>, raised |-> FALSE]
       ELSE IF llm.kind = "raise"
       THEN [answer |-> ErroAoProcessar(llm.text), queries |-> QueriesMade(a),
             prompts |-> <<PageContents(retr.docs)>>, raised |-> FALSE]
       ELSE [answer |-> RagExtractText(llm.resp), queries |-> QueriesMade(a),
             prompts |-> <<PageContents(retr.docs)>>, raised |-> FALSE]

\* RAGService.answer_question: the returned string, the retriever queries
\* and the prompts given to the model
AnswerQuestion(a, llm) ==
    LET retr == QueryOutcome(a)
    IN IF QueryRaised(retr)
       THEN [answer |-> ErroAoProcessar(retr.text), queries |-> QueriesMade(a),
             prompts |-> <<>>, raised |-> FALSE]
       ELSE IF retr.kind = "string"
       THEN [answer |-> ErroFormato, queries |-> QueriesMade(a), prompts |-> <<>>,
             raised |-> FALSE]
       ELSE IF llm.kind = "raise"
       THEN [answer |-> ErroAoProcessar(llm.text), queries |-> QueriesMade(a),
             prompts |-> <<PageContents(retr.docs)>>, raised |-> FALSE]
       ELSE [answer |-> RagExtractText(llm.resp), queries |-> QueriesMade(a),
             prompts |-> <<PageContents(retr.docs)>>, raised |-> FALSE]

\* RAGService.answer_question_simple
AnswerQuestionSimple(a, llm) ==
    LET retr == QueryOutcome(a)
    IN IF QueryRaised(retr)
       THEN [answer |-> ErroAoProcessar(retr.text), queries |-> QueriesMade(a),
             prompts |-> <<>>, raised |-> FALSE]
       ELSE IF retr.kind = "string"
       THEN [answer |-> ErroAoProcessar(NoPageContent), queries |-> QueriesMade(a),
             prompts |-> <<>>, raised |-> FALSE]
       ELSE IF llm.kind = "raise"
       THEN [answer |-> ErroAoProcessar(llm.text), queries |-> QueriesMade(a),
             prompts |-> <<PageContents(retr.docs)>>, raised |-> FALSE]
       ELSE [answer |-> RagExtractText(llm.resp), queries |-> QueriesMade(a),
             prompts |-> <<PageContents(retr.docs)>>, raised |-> FALSE]

\* an answer_question without the except clause: the model's exception
\* leaves the method
LlmAnswerQuestion_Propagates(llm) ==
    IF llm.kind = "raise"
    THEN [answer |-> Txt("", 0, 0, 0), queries |-> <<>>, prompts |-> <<<<>>>>,
          raised |-> TRUE]
    ELSE [answer |-> LlmExtractText(llm.resp), queries |-> <<>>, prompts |-> <<<<>>>>,
          raised |-> FALSE]

\* LLMService.answer_question
LlmAnswerQuestion(llm) ==
    IF llm.kind = "raise"
    THEN [answer |-> ErroAoProcessar(llm.text), queries |-> <<>>, prompts |-> <<<<>>>>,
          raised |-> FALSE]
    ELSE [answer |-> LlmExtractText(llm.resp), queries |-> <<>>, prompts |-> <<<<>>>>,
          raised |-> FALSE]

(* What the retriever and the model may do *)

NoText == Txt("", 0, 0, 0)

ErrorMessages == {Txt("timeout", 0, 7, 0), NoText}

Retrievals ==
    {Retrieval("docs", q, NoText) : q \in SeqsUpTo(CitedDocs, MaxDocs)}
        \cup {Retrieval("string", <<>>, Txt("index missing", 0, 13, 0))}
        \cup {Retrieval("raise", <<>>, m) : m \in ErrorMessages}

\* a query that fails with an AttributeError of its own
AttrError ==
    Retrieval("attr_error", <<>>, Txt("'NoneType' object has no attribute 'search'", 0, 43, 0))

\* a retriever without an invoke method
NoInvoke == Retrieval("no_method", <<>>, Txt("", 0, 0, 0))

\* what get_relevant_documents may do when the handler calls it
Fallbacks ==
    {Retrieval("docs", <<DocFull>>, Txt("", 0, 0, 0)),
     Retrieval("raise", <<>>, Txt("timeout", 0, 7, 0)),
     AttrError}

\* the runs of the try statement: invoke answers or raises something else
\* (get_relevant_documents is not called), or the handler runs
Attempts(outcomes, fallbacks) ==
    {Attempt(o, o) : o \in outcomes}
        \cup {Attempt(f, g) : f \in {AttrError, NoInvoke}, g \in fallbacks}

RetrieverAttempts == Attempts(Retrievals, Fallbacks)

ModelResponses ==
    {Resp("str", Txt("plain", 2, 40, 1), <<>>),
     Resp("str", Txt("curto", 0, 5, 0), <<>>),
     Resp("message", Txt("content-attr", 0, 30, 0), <<>>),
     Resp("dict", Txt("repr", 0, 50, 0),
          [answer |-> Txt("answer-key", 0, 20, 0), content |-> Txt("content-key", 0, 21, 0)]),
     Resp("dict", Txt("repr", 0, 50, 0),
          [content |-> Txt("content-key", 0, 21, 0), text |-> Txt("text-key", 0, 22, 0)]),
     Resp("dict", Txt("repr", 0, 50, 0), [text |-> Txt("text-key", 0, 22, 0)]),
     Resp("dict", Txt("repr", 0, 50, 0),
          [result |-> Resp("dict", Txt("repr", 0, 30, 0), [answer |-> Txt("nested", 0, 23, 0)]),
           answer |-> Txt("answer-key", 0, 20, 0)]),
     Resp("dict", Txt("repr", 0, 12, 0), [other |-> Txt("x", 0, 1, 0)]),
     Resp("other", Txt("repr", 0, 12, 0), <<>>)}

Invocations ==
    {Invocation("response", r, NoText) : r \in ModelResponses}
        \cup {Invocation("raise", Resp("other", NoText, <<>>), m) : m \in ErrorMessages}

\* a call of RAGService.answer_question(question)
CallAnswerQuestion ==
    /\ \E a \in RetrieverAttempts, llm \in Invocations :
          LET r == AnswerQuestion(a, llm)
          IN /\ r_retr' = r.queries
             /\ r_llm' = IF r.prompts = <<>> THEN <<>> ELSE <<llm>>
             /\ r_result' = r
    /\ r_method' = "answer_question"
    /\ UNCHANGED nonSvcVars

\* a call of RAGService.answer_question_simple(question)
CallAnswerQuestionSimple ==
    /\ \E a \in RetrieverAttempts, llm \in Invocations :
          LET r == AnswerQuestionSimple(a, llm)
          IN /\ r_retr' = r.queries
             /\ r_llm' = IF r.prompts = <<>> THEN <<>> ELSE <<llm>>
             /\ r_result' = r
    /\ r_method' = "answer_question_simple"
    /\ UNCHANGED nonSvcVars

\* a call of LLMService.answer_question(question)
CallLlmAnswerQuestion ==
    /\ \E llm \in Invocations :
          LET r == LlmAnswerQuestion(llm)
          IN /\ r_retr' = r.queries
             /\ r_llm' = <<llm>>
             /\ r_result' = r
    /\ r_method' = "llm_answer_question"
    /\ UNCHANGED nonSvcVars

NextServices == CallAnswerQuestion \/ CallAnswerQuestionSimple \/ CallLlmAnswerQuestion

SpecServices == Init /\ [][NextServices]_vars

----------------------------------------------------------------------------
(* RAGEvaluationService: interpretation, comparison, recommendation        *)

\* score >= 0.8
TierExcellent == 8000
\* score >= 0.6
TierGood == 6000
\* score >= 0.4
TierModerate == 4000

\* the four texts of a metric, lowest tier first
TierTexts(metric) ==
    CASE metric = "faithfulness" ->
            <<"Baixa fidelidade", "Fidelidade moderada", "Boa fidelidade", "Excelente fidelidade">>
      [] metric = "answer_relevancy" ->
            <<"Baixa relevancia", "Relevancia moderada", "Boa relevancia", "Excelente relevancia">>
      [] metric = "context_precision" ->
            <<"Baixa precisao", "Precisao moderada", "Boa precisao", "Excelente precisao">>

\* an if/elif chain that tests the lower thresholds first
TierOf_LowFirst(score) ==
    IF score >= TierModerate THEN 2
    ELSE IF score >= TierGood THEN 3
    ELSE IF score >= TierExcellent THEN 4
    ELSE 1

\* the if/elif chain on score: 4 excellent, 3 good, 2 moderate, 1 low
TierOf(score) ==
    IF score >= TierExcellent THEN 4
    ELSE IF score >= TierGood THEN 3
    ELSE IF score >= TierModerate THEN 2
    ELSE 1

\* RAGEvaluationService._interpret_rag_scores
InterpretRagScores(scores) ==
    [m \in DOMAIN scores \cap Metrics |-> TierTexts(m)[TierOf(scores[m])]]

\* RAGEvaluationService._interpret_llm_scores
InterpretLlmScores(scores) ==
    [m \in DOMAIN scores \cap {"answer_relevancy"} |-> TierTexts(m)[TierOf(scores[m])]]

\* f"{x:.3f}": the score rounded to thousandths (no score of the model lies
\* half-way between two thousandths)
Fmt3(x) == (x + 5) \div 10

\* faith_score >= 0.7
ReliableFaithfulness == 7000

\* a comparison whose first test is rag_rel >= llm_rel: a tie goes to RAG
CompareRagVsLlm_TieToRag(rag_scores, llm_scores) ==
    LET both == "answer_relevancy" \in DOMAIN rag_scores
                    /\ "answer_relevancy" \in DOMAIN llm_scores
        rag_rel == rag_scores["answer_relevancy"]
        llm_rel == llm_scores["answer_relevancy"]
        keys == (IF both THEN {"answer_relevancy"} ELSE {})
                    \cup (IF "faithfulness" \in DOMAIN rag_scores THEN {"overall"} ELSE {})
    IN [k \in keys |->
          IF k = "answer_relevancy"
          THEN IF rag_rel >= llm_rel
               THEN [text |-> "RAG supera LLM", shown |-> <<Fmt3(rag_rel), Fmt3(llm_rel)>>]
               ELSE IF llm_rel > rag_rel
               THEN [text |-> "LLM supera RAG", shown |-> <<Fmt3(llm_rel), Fmt3(rag_rel)>>]
               ELSE [text |-> "RAG e LLM equivalentes", shown |-> <<Fmt3(rag_rel)>>]
          ELSE IF rag_scores["faithfulness"] >= ReliableFaithfulness
               THEN [text |-> "RAG oferece maior confiabilidade", shown |-> <<>>]
               ELSE [text |-> "RAG pode ter problemas de fidelidade", shown |-> <<>>]]

\* RAGEvaluationService._compare_rag_vs_llm
CompareRagVsLlm(rag_scores, llm_scores) ==
    LET both == "answer_relevancy" \in DOMAIN rag_scores
                    /\ "answer_relevancy" \in DOMAIN llm_scores
        rag_rel == rag_scores["answer_relevancy"]
        llm_rel == llm_scores["answer_relevancy"]
        keys == (IF both THEN {"answer_relevancy"} ELSE {})
                    \cup (IF "faithfulness" \in DOMAIN rag_scores THEN {"overall"} ELSE {})
    IN [k \in keys |->
          IF k = "answer_relevancy"
          THEN IF rag_rel > llm_rel
               THEN [text |-> "RAG supera LLM", shown |-> <<Fmt3(rag_rel), Fmt3(llm_rel)>>]
               ELSE IF llm_rel > rag_rel
               THEN [text |-> "LLM supera RAG", shown |-> <<Fmt3(llm_rel), Fmt3(rag_rel)>>]
               ELSE [text |-> "RAG e LLM equivalentes", shown |-> <<Fmt3(rag_rel)>>]
          ELSE IF rag_scores["faithfulness"] >= ReliableFaithfulness
               THEN [text |-> "RAG oferece maior confiabilidade", shown |-> <<>>]
               ELSE [text |-> "RAG pode ter problemas de fidelidade", shown |-> <<>>]]

\* faith_score < 0.6
LowFaithfulness == 6000
\* rag_rel < 0.6
LowRelevancy == 6000
\* llm_rel > rag_rel + 0.2
RetrievalGap == 2000
\* prec_score < 0.6
LowPrecision == 6000

\* a faithfulness rule that only fires on a positive score
FaithfulnessRule_PositiveOnly(rag_scores) ==
    IF "faithfulness" \in DOMAIN rag_scores
          /\ rag_scores["faithfulness"] > 0
          /\ rag_scores["faithfulness"] < LowFaithfulness
    THEN <<"Melhorar qualidade dos documentos ou ajustar chunking">>
    ELSE <<>>

\* _generate_recommendation, lines 415-418
FaithfulnessRule(rag_scores) ==
    IF "faithfulness" \in DOMAIN rag_scores /\ rag_scores["faithfulness"] < LowFaithfulness
    THEN <<"Melhorar qualidade dos documentos ou ajustar chunking">>
    ELSE <<>>

\* relevancy rules chained with elif: the retrieval-gap rule is only looked
\* at when the low-relevancy rule did not fire
RelevancyRules_Elif(rag_scores, llm_scores) ==
    IF "answer_relevancy" \in DOMAIN rag_scores /\ "answer_relevancy" \in DOMAIN llm_scores
    THEN IF rag_scores["answer_relevancy"] < LowRelevancy
         THEN <<"Melhorar prompt ou ajustar retriever">>
         ELSE IF llm_scores["answer_relevancy"] > rag_scores["answer_relevancy"] + RetrievalGap
         THEN <<"Considerar melhorar estrategia de retrieval">>
         ELSE <<>>
    ELSE <<>>

\* _generate_recommendation, lines 421-429
RelevancyRules(rag_scores, llm_scores) ==
    IF "answer_relevancy" \in DOMAIN rag_scores /\ "answer_relevancy" \in DOMAIN llm_scores
    THEN (IF rag_scores["answer_relevancy"] < LowRelevancy
          THEN <<"Melhorar prompt ou ajustar retriever">> ELSE <<>>)
         \o (IF llm_scores["answer_relevancy"] > rag_scores["answer_relevancy"] + RetrievalGap
             THEN <<"Considerar melhorar estrategia de retrieval">> ELSE <<>>)
    ELSE <<>>

\* _generate_recommendation, lines 432-435
PrecisionRule(rag_scores) ==
    IF "context_precision" \in DOMAIN rag_scores
          /\ rag_scores["context_precision"] < LowPrecision
    THEN <<"Ajustar estrategia de chunking ou embedding">>
    ELSE <<>>

\* a recommendation without the faithfulness rule
GenerateRecommendation_NoFaithfulnessRule(rag_scores, llm_scores) ==
    LET recommendations == RelevancyRules(rag_scores, llm_scores) \o PrecisionRule(rag_scores)
    IN IF recommendations = <<>>
       THEN <<"Sistema funcionando bem - manter configuracao atual">>
       ELSE recommendations

\* RAGEvaluationService._generate_recommendation: the messages that " | " joins
GenerateRecommendation(rag_scores, llm_scores) ==
    LET recommendations == FaithfulnessRule(rag_scores)
                               \o RelevancyRules(rag_scores, llm_scores)
                               \o PrecisionRule(rag_scores)
    IN IF recommendations = <<>>
       THEN <<"Sistema funcionando bem - manter configuracao atual">>
       ELSE recommendations

(* Inputs of the verdict functions *)

\* scores in [0.0, 1.0], around the thresholds
FineScores == {0, 3999, 4000, 5999, 6000, 6999, 7000, 7999, 8000, 10000}

InitVerdict ==
    /\ v_rag \in [Metrics -> FineScores]
    /\ v_llm \in [{"answer_relevancy"} -> FineScores]
    /\ v_op = "ready"
    /\ v_out = <<>>

\* a call of _interpret_rag_scores(rag_scores)
CallInterpretRag ==
    /\ v_op = "ready"
    /\ v_op' = "interpret_rag"
    /\ v_out' = InterpretRagScores(v_rag)
    /\ UNCHANGED <<v_rag, v_llm>>
    /\ UNCHANGED nonVerdictVars

\* a call of _interpret_llm_scores(llm_scores)
CallInterpretLlm ==
    /\ v_op = "ready"
    /\ v_op' = "interpret_llm"
    /\ v_out' = InterpretLlmScores(v_llm)
    /\ UNCHANGED <<v_rag, v_llm>>
    /\ UNCHANGED nonVerdictVars

\* a call of _compare_rag_vs_llm(rag_scores, llm_scores)
CallCompare ==
    /\ v_op = "ready"
    /\ v_op' = "compare"
    /\ v_out' = CompareRagVsLlm(v_rag, v_llm)
    /\ UNCHANGED <<v_rag, v_llm>>
    /\ UNCHANGED nonVerdictVars

\* a call of _generate_recommendation(rag_scores, llm_scores)
CallRecommend ==
    /\ v_op = "ready"
    /\ v_op' = "recommend"
    /\ v_out' = GenerateRecommendation(v_rag, v_llm)
    /\ UNCHANGED <<v_rag, v_llm>>
    /\ UNCHANGED nonVerdictVars

\* lines 111-112: the comparison and recommendation entries of one result
CallCompareAndRecommend ==
    /\ v_op = "ready"
    /\ v_op' = "verdict"
    /\ v_out' = [comparison |-> CompareRagVsLlm(v_rag, v_llm),
                 recommendation |-> GenerateRecommendation(v_rag, v_llm)]
    /\ UNCHANGED <<v_rag, v_llm>>
    /\ UNCHANGED nonVerdictVars

NextVerdict ==
    \/ CallInterpretRag
    \/ CallInterpretLlm
    \/ CallCompare
    \/ CallRecommend
    \/ CallCompareAndRecommend

InitVerdictCalls ==
    InitCitation /\ InitConc /\ InitScoreIdle /\ InitVerdict /\ InitSvc /\ InitEval

SpecVerdict == InitVerdictCalls /\ [][NextVerdict]_vars

----------------------------------------------------------------------------
(* RAGEvaluationService.evaluate_single_question, stage by stage           *)

\* RAGEvaluationService._extract_text_from_response
EvalExtractText(r) ==
    IF r.shape = "str" THEN r.text
    ELSE IF r.shape = "message" THEN r.text
    ELSE IF DictHas(r, "answer") THEN r.d["answer"]
    ELSE IF DictHas(r, "content") THEN r.d["content"]
    ELSE r.text

\* "Error: " + str(e)
ErrorColon(msg) == Concat(Txt("Error:", 0, 6, 1), msg)

\* RAGEvaluationService._get_rag_data: simple is what answer_question_simple
\* did, a what the try statement of the evidence lookup (lines 137-143) did
GetRagData(simple, a) ==
    LET retr == QueryOutcome(a)
    IN IF QueryRaised(retr)
       THEN [answer |-> ErrorColon(retr.text), contexts |-> <<>>]
       ELSE IF retr.kind = "string"
       THEN [answer |-> ErrorColon(NoPageContent), contexts |-> <<>>]
       ELSE [answer |-> EvalExtractText(Resp("str", simple.answer, <<>>)),
             contexts |-> PageContents(retr.docs)]

(* What the retriever, the model and the metric backend may do during one evaluation *)

EvalDocs == {DocFull, DocNoMeta}

EvalRetrievals ==
    {Retrieval("docs", q, NoText) : q \in SeqsUpTo(EvalDocs, MaxDocs)}
        \cup {Retrieval("string", <<>>, Txt("index missing", 0, 13, 0)),
              Retrieval("raise", <<>>, Txt("timeout", 0, 7, 0))}

EvalFallbacks ==
    {Retrieval("docs", <<DocFull>>, NoText), Retrieval("raise", <<>>, Txt("timeout", 0, 7, 0))}

EvalAttempts == Attempts(EvalRetrievals, EvalFallbacks)

EvalInvocations ==
    {Invocation("response", Resp("str", t, <<>>), NoText) :
        t \in {Txt("plain", 2, 40, 1), Txt("curto", 0, 5, 0), Txt("margem", 3, 8, 2)}}
        \cup {Invocation("raise", Resp("other", NoText, <<>>), Txt("timeout", 0, 7, 0))}

EvalOutcomes == {Outcome("raise", 0), Outcome("num", 3000), Outcome("num", 9000)}

EvalQuestion == Txt("q", 0, 30, 1)

\* line 80: rag_data = self._get_rag_data(rag_service, question)
CollectRagData ==
    /\ e_stage = "COLLECT_RAG_DATA"
    /\ \E a1 \in EvalAttempts, llm \in EvalInvocations, a2 \in EvalAttempts :
          LET simple == AnswerQuestionSimple(a1, llm)
          IN /\ e_rag_data' = GetRagData(simple, a2)
             /\ e_queries' = simple.queries \o QueriesMade(a2)
             /\ e_prompts' = simple.prompts
             /\ e_invs' = IF simple.prompts = <<>> THEN <<>> ELSE <<llm>>
    /\ e_stage' = "COLLECT_LLM_DATA"
    /\ UNCHANGED <<e_llm_answer, e_rag_scores, e_llm_scores, e_outs, e_result, e_calls>>
    /\ UNCHANGED nonEvalVars

\* lines 83-84: llm_response = llm_service.answer_question(question)
CollectLlmData ==
    /\ e_stage = "COLLECT_LLM_DATA"
    /\ \E llm \in EvalInvocations :
          LET r == LlmAnswerQuestion(llm)
          IN /\ e_llm_answer' = EvalExtractText(Resp("str", r.answer, <<>>))
             /\ e_prompts' = e_prompts \o r.prompts
             /\ e_invs' = Append(e_invs, llm)
    /\ e_stage' = "SCORE_RAG"
    /\ UNCHANGED <<e_rag_data, e_rag_scores, e_llm_scores, e_outs, e_result, e_queries, e_calls>>
    /\ UNCHANGED nonEvalVars

\* a SCORE_RAG stage that gives up when the backend fails: the call ends at
\* once, without the later stages
ScoreRag_Abort ==
    /\ e_stage = "SCORE_RAG"
    /\ \E outs \in [Metrics -> EvalOutcomes] :
          LET r == EvaluateRagResponse(EvalQuestion, e_rag_data, outs)
              failed == r.calls # <<>> /\ \E m \in Metrics : outs[m].kind = "raise"
          IN /\ e_rag_scores' = r.scores
             /\ e_calls' = e_calls \o r.calls
             /\ e_outs' = <<IF r.calls = <<>> THEN <<>> ELSE outs>>
             /\ e_stage' = IF failed THEN "DONE" ELSE "SCORE_LLM"
    /\ UNCHANGED <<e_rag_data, e_llm_answer, e_llm_scores, e_result, e_queries, e_prompts,
                   e_invs>>
    /\ UNCHANGED nonEvalVars

\* line 87: rag_scores = self._evaluate_rag_response(question, rag_data)
ScoreRag ==
    /\ e_stage = "SCORE_RAG"
    /\ \E outs \in [Metrics -> EvalOutcomes] :
          LET r == EvaluateRagResponse(EvalQuestion, e_rag_data, outs)
          IN /\ e_rag_scores' = r.scores
             /\ e_calls' = e_calls \o r.calls
             /\ e_outs' = <<IF r.calls = <<>> THEN <<>> ELSE outs>>
    /\ e_stage' = "SCORE_LLM"
    /\ UNCHANGED <<e_rag_data, e_llm_answer, e_llm_scores, e_result, e_queries, e_prompts,
                   e_invs>>
    /\ UNCHANGED nonEvalVars

\* line 90: llm_scores = self._evaluate_llm_response(question, llm_answer)
ScoreLlm ==
    /\ e_stage = "SCORE_LLM"
    /\ \E o \in EvalOutcomes :
          LET r == EvaluateLlmResponse(EvalQuestion, e_llm_answer, o)
          IN /\ e_llm_scores' = r.scores
             /\ e_calls' = e_calls \o r.calls
             /\ e_outs' = Append(e_outs, IF r.calls = <<>> THEN <<>>
                                         ELSE [m \in {"answer_relevancy"} |-> o])
    /\ e_stage' = "INTERPRET"
    /\ UNCHANGED <<e_rag_data, e_llm_answer, e_rag_scores, e_result, e_queries, e_prompts,
                   e_invs>>
    /\ UNCHANGED nonEvalVars

\* lines 101-110: the rag_evaluation and llm_evaluation entries
Interpret ==
    /\ e_stage = "INTERPRET"
    /\ e_result' = [evaluation_summary |-> [question_length |-> TextLen(EvalQuestion)],
                    rag_evaluation |-> [scores |-> e_rag_scores,
                                        interpretation |-> InterpretRagScores(e_rag_scores)],
                    llm_evaluation |-> [answer |-> e_llm_answer,
                                        scores |-> e_llm_scores,
                                        interpretation |-> InterpretLlmScores(e_llm_scores)]]
    /\ e_stage' = "COMPARE"
    /\ UNCHANGED <<e_rag_data, e_llm_answer, e_rag_scores, e_llm_scores, e_outs,
                   e_queries, e_prompts, e_calls, e_invs>>
    /\ UNCHANGED nonEvalVars

\* a record with one more field
WithField(rec, key, value) ==
    [k \in DOMAIN rec \cup {key} |-> IF k = key THEN value ELSE rec[k]]

\* line 111: the comparison entry
Compare ==
    /\ e_stage = "COMPARE"
    /\ e_result' = WithField(e_result, "comparison", CompareRagVsLlm(e_rag_scores, e_llm_scores))
    /\ e_stage' = "RECOMMEND"
    /\ UNCHANGED <<e_rag_data, e_llm_answer, e_rag_scores, e_llm_scores, e_outs,
                   e_queries, e_prompts, e_calls, e_invs>>
    /\ UNCHANGED nonEvalVars

\* lines 112-117: the recommendation entry; the result is returned
Recommend ==
    /\ e_stage = "RECOMMEND"
    /\ e_result' = WithField(e_result, "recommendation",
                             GenerateRecommendation(e_rag_scores, e_llm_scores))
    /\ e_stage' = "DONE"
    /\ UNCHANGED <<e_rag_data, e_llm_answer, e_rag_scores, e_llm_scores, e_outs,
                   e_queries, e_prompts, e_calls, e_invs>>
    /\ UNCHANGED nonEvalVars

NextEval ==
    \/ CollectRagData
    \/ CollectLlmData
    \/ ScoreRag
    \/ ScoreLlm
    \/ Interpret
    \/ Compare
    \/ Recommend

SpecEval == Init /\ [][NextEval]_vars

----------------------------------------------------------------------------
(* C1: after reset_counter(), the citations created since are numbered      *)
(* exactly 1, 2, ..., N in creation order, whatever calls came before; the *)
(* first one created after reset_counter() is numbered 1.                  *)
C1_SequentialAfterReset ==
    wasReset =>
        /\ \A i \in 1..Len(issued) : issued[i].number = i
        /\ citation_counter = Len(issued)

\* a reset happened after earlier citations, and three citations were created since
C1_Witness ==
    /\ wasReset
    /\ counterAtReset >= 2
    /\ Len(issued) = 3
    /\ issued[1].number = 1

\* C2: every call of RAGService.answer_question that retrieves N documents and
\* gets a model response has reset the citation counter and created exactly
\* one Citation per retrieved document, numbered 1..N in retrieval order.
C2_AnswerCarriesCitations ==
    (/\ r_method = "answer_question"
     /\ r_retr # <<>> /\ r_retr[1].kind = "docs"
     /\ r_llm # <<>> /\ r_llm[1].kind = "response") =>
        /\ Len(issued) = Len(r_retr[1].docs)
        /\ \A i \in 1..Len(issued) : issued[i].number = i
        /\ citation_counter = Len(r_retr[1].docs)

\* C3: when two answers are built concurrently on the same CitationService,
\* each finished answer's citations are numbered exactly 1..N for its own N
\* documents, whatever the interleaving of the reset and create steps.
C3_ConcurrentNumbering ==
    \A b \in Builders :
        cpc[b] = "done" => ccits[b] = [i \in 1..cdocs[b] |-> i]

----------------------------------------------------------------------------
(* C4: whatever the metric backend does, the ScoreSet of a RAG pass has     *)
(* exactly the keys faithfulness, answer_relevancy and context_precision,  *)
(* the ScoreSet of an LLM pass has the key answer_relevancy, and a metric  *)
(* whose computation failed or was invalid is 0.0.                         *)
C4_AllMetricsPresent ==
    /\ s_pass = "rag" => DOMAIN s_scores = Metrics
    /\ s_pass = "llm" => "answer_relevancy" \in DOMAIN s_scores
    /\ s_pass \in {"rag", "llm"} =>
          \A m \in DOMAIN s_outs :
              (s_outs[m].kind # "num" \/ s_outs[m].v < 0) => s_scores[m] = 0

\* a RAG pass in which the backend returned a result without tabular form
C4_Witness ==
    /\ s_pass = "rag"
    /\ s_calls # <<>>
    /\ s_outs["faithfulness"].kind = "no_table"
    /\ s_outs["answer_relevancy"].kind = "raise"
    /\ s_outs["context_precision"].kind = "nan"

\* C5: every score of a RAG or LLM ScoreSet lies in [0.0, 1.0], whatever raw
\* value the backend returned (NaN, negative, greater than 1.0).
C5_ScoresInUnitRange ==
    s_pass \in {"rag", "llm"} =>
        \A m \in DOMAIN s_scores : 0 <= s_scores[m] /\ s_scores[m] <= 10000

\* C6: in a RAG pass on valid input, a metric that failed is 0.0 and every
\* metric for which the backend returned a valid value has exactly that value.
C6_MetricIsolation ==
    (s_pass = "rag" /\ s_calls # <<>>) =>
        \A m \in Metrics :
            s_scores[m] = IF ValueIsValid(s_outs[m]) THEN s_outs[m].v ELSE 0

\* the first metric computed raised and the other two returned valid values
C6_Witness ==
    /\ s_pass = "rag"
    /\ s_calls # <<>>
    /\ s_outs["answer_relevancy"].kind = "raise"
    /\ s_outs["faithfulness"] = Outcome("num", 4500)
    /\ s_outs["context_precision"] = Outcome("num", 10000)
    /\ s_scores["faithfulness"] = 4500

\* C7 as stated: an answer shorter than 10 characters gives 0.0 for every
\* metric of the pass without any backend invocation, and an answer of 10 or
\* more characters is not short-circuited by the length check.
C7_RawLengthDecides ==
    s_pass \in {"rag", "llm"} =>
        /\ TextLen(s_answer) < 10 =>
              (s_calls = <<>> /\ \A m \in DOMAIN s_scores : s_scores[m] = 0)
        /\ (TextLen(s_answer) >= 10 /\ s_pass = "llm") => s_calls # <<>>
        /\ (TextLen(s_answer) >= 10 /\ s_pass = "rag"
                /\ \E i \in 1..Len(s_contexts) : TextLen(Strip(s_contexts[i])) > 10)
              => s_calls # <<>>

\* C7 (amended): in both passes, an answer whose whitespace-stripped text is
\* shorter than 10 characters gives 0.0 for every metric of the pass and the
\* backend is never invoked; an answer whose stripped text has 10 or more
\* characters is not short-circuited by the length check.
C7_StrippedLengthDecides ==
    s_pass \in {"rag", "llm"} =>
        /\ TextLen(Strip(s_answer)) < 10 =>
              (s_calls = <<>> /\ \A m \in DOMAIN s_scores : s_scores[m] = 0)
        /\ (TextLen(Strip(s_answer)) >= 10 /\ s_pass = "llm") => s_calls # <<>>
        /\ (TextLen(Strip(s_answer)) >= 10 /\ s_pass = "rag"
                /\ \E i \in 1..Len(s_contexts) : TextLen(Strip(s_contexts[i])) > 10)
              => s_calls # <<>>

\* an LLM pass on an answer of 13 characters of which 8 are left after the strip
C7_Witness ==
    /\ s_pass = "llm"
    /\ TextLen(s_answer) >= 10
    /\ TextLen(Strip(s_answer)) < 10
    /\ s_calls = <<>>
    /\ s_scores["answer_relevancy"] = 0

\* the documents the claim of C8 keeps: stripped content of at least 10 characters
C8_ExpectedEvidence(contexts) ==
    LET kept == SelectSeq(contexts, LAMBDA c : TextLen(Strip(c)) >= 10)
    IN [i \in 1..Len(kept) |-> Strip(kept[i])]

\* C8: in a RAG pass the evidence passed to the backend is exactly the
\* documents whose stripped content has at least 10 characters (a document
\* of exactly 10 characters is kept), and the pass returns all-0.0 without
\* invoking the backend if and only if the answer is degenerate or no
\* document survives that filter.
C8_EvidenceFilter ==
    s_pass = "rag" =>
        /\ \A i \in 1..Len(s_calls) :
              s_calls[i].contexts = C8_ExpectedEvidence(s_contexts)
        /\ s_calls = <<>> <=>
              (TextLen(Strip(s_answer)) < 10 \/ C8_ExpectedEvidence(s_contexts) = <<>>)

\* every retriever query of the evaluation returned the empty sequence
C9_RetrieverEmpty ==
    /\ e_queries # <<>>
    /\ \A i \in 1..Len(e_queries) : e_queries[i] = Retrieval("docs", <<>>, NoText)

\* C9: when the retriever returns an empty sequence for the question,
\* evaluate_single_question returns a populated result whose RAG ScoreSet is
\* 0.0 for all three metrics and whose recommendation contains the
\* improve-document-quality/chunking message, whatever the model answers and
\* whatever the LLM-path scores are.
C9_EmptyRetrieval ==
    (e_stage = "DONE" /\ C9_RetrieverEmpty) =>
        /\ DOMAIN e_result =
              {"evaluation_summary", "rag_evaluation", "llm_evaluation",
               "comparison", "recommendation"}
        /\ e_result.rag_evaluation.scores = [m \in Metrics |-> 0]
        /\ \E i \in 1..Len(e_result.recommendation) :
              e_result.recommendation[i]
                  = "Melhorar qualidade dos documentos ou ajustar chunking"

\* an evaluation with empty retrievals, a long model answer and an LLM score of 0.9
C9_Witness ==
    /\ e_stage = "DONE"
    /\ C9_RetrieverEmpty
    /\ TextLen(Strip(e_rag_data.answer)) >= 10
    /\ e_llm_scores["answer_relevancy"] = 9000

\* the tier the thresholds of C10 give a score: 1 low, 2 moderate, 3 good, 4 excellent
C10_Tier(score) ==
    CASE score < 4000 -> 1
      [] score >= 4000 /\ score < 6000 -> 2
      [] score >= 6000 /\ score < 8000 -> 3
      [] score >= 8000 -> 4

\* the ScoreSet an interpretation call was given
C10_Input == IF v_op = "interpret_rag" THEN v_rag ELSE v_llm

\* the interpretation the called function gives metric m at score x
C10_TextAt(m, x) ==
    IF v_op = "interpret_rag"
    THEN InterpretRagScores([k \in {m} |-> x])[m]
    ELSE InterpretLlmScores([k \in {m} |-> x])[m]

\* the rank (1 low .. 4 excellent) of an interpretation text of metric m
C10_Rank(m, text) == CHOOSE t \in 1..4 : TierTexts(m)[t] = text

\* C10: every metric of the ScoreSet receives an interpretation, which is
\* exactly one of the metric's four tier texts, namely that of the tier of
\* its score (low < 0.4 <= moderate < 0.6 <= good < 0.8 <= excellent), and
\* the tier is non-decreasing in the score.
C10_InterpretationTiers ==
    v_op \in {"interpret_rag", "interpret_llm"} =>
        /\ DOMAIN v_out = DOMAIN C10_Input
        /\ \A m \in DOMAIN C10_Input :
              /\ Cardinality({t \in 1..4 : TierTexts(m)[t] = v_out[m]}) = 1
              /\ v_out[m] = TierTexts(m)[C10_Tier(C10_Input[m])]
              /\ \A lower \in FineScores :
                    lower <= C10_Input[m] =>
                        C10_Rank(m, C10_TextAt(m, lower)) <= C10_Rank(m, v_out[m])

\* a RAG ScoreSet with one metric just under 0.8, one exactly 0.8 and one exactly 0.4
C10_Witness ==
    /\ v_op = "interpret_rag"
    /\ v_rag["faithfulness"] = 7999 /\ v_out["faithfulness"] = "Boa fidelidade"
    /\ v_rag["answer_relevancy"] = 8000 /\ v_out["answer_relevancy"] = "Excelente relevancia"
    /\ v_rag["context_precision"] = 4000 /\ v_out["context_precision"] = "Precisao moderada"

\* shown is x to three decimals: the thousandth nearest to x
C11_ThreeDecimals(shown, x) == 10 * shown - x \in -5..5

\* C11: when both ScoreSets hold answer_relevancy, the comparison says RAG
\* surpasses LLM exactly when the RAG value is strictly higher, LLM surpasses
\* RAG exactly when the LLM value is strictly higher and equivalent exactly
\* when the two are equal, and it shows the compared values to three decimals
\* (the winner first; a tie shows the common value).
C11_RelevancyComparison ==
    v_op = "compare" =>
        LET rag_rel == v_rag["answer_relevancy"]
            llm_rel == v_llm["answer_relevancy"]
            out == v_out["answer_relevancy"]
        IN /\ "answer_relevancy" \in DOMAIN v_out
           /\ out.text \in {"RAG supera LLM", "LLM supera RAG", "RAG e LLM equivalentes"}
           /\ out.text = "RAG supera LLM" <=> rag_rel > llm_rel
           /\ out.text = "LLM supera RAG" <=> llm_rel > rag_rel
           /\ out.text = "RAG e LLM equivalentes" <=> rag_rel = llm_rel
           /\ rag_rel > llm_rel =>
                 /\ Len(out.shown) = 2
                 /\ C11_ThreeDecimals(out.shown[1], rag_rel)
                 /\ C11_ThreeDecimals(out.shown[2], llm_rel)
           /\ llm_rel > rag_rel =>
                 /\ Len(out.shown) = 2
                 /\ C11_ThreeDecimals(out.shown[1], llm_rel)
                 /\ C11_ThreeDecimals(out.shown[2], rag_rel)
           /\ rag_rel = llm_rel =>
                 /\ Len(out.shown) = 1
                 /\ C11_ThreeDecimals(out.shown[1], rag_rel)
                 /\ C11_ThreeDecimals(out.shown[1], llm_rel)

\* RAG 0.8 against LLM 0.4: "RAG supera LLM (0.800 vs 0.400)"
C11_Witness ==
    /\ v_op = "compare"
    /\ v_rag["answer_relevancy"] = 8000
    /\ v_llm["answer_relevancy"] = 4000
    /\ v_out["answer_relevancy"] = [text |-> "RAG supera LLM", shown |-> <<800, 400>>]

\* a tie at 0.6: "RAG e LLM equivalentes (0.600)"
C11_TieWitness ==
    /\ v_op = "compare"
    /\ v_rag["answer_relevancy"] = 6000
    /\ v_llm["answer_relevancy"] = 6000
    /\ v_out["answer_relevancy"].text = "RAG e LLM equivalentes"

\* the four rule conditions of C12, in the order the spec lists them
C12_Holds ==
    <<v_rag["faithfulness"] < 6000,
      v_rag["answer_relevancy"] < 6000,
      v_llm["answer_relevancy"] > v_rag["answer_relevancy"] + 2000,
      v_rag["context_precision"] < 6000>>

\* the message of each rule
C12_Messages ==
    <<"Melhorar qualidade dos documentos ou ajustar chunking",
      "Melhorar prompt ou ajustar retriever",
      "Considerar melhorar estrategia de retrieval",
      "Ajustar estrategia de chunking ou embedding">>

\* the rules whose condition holds
C12_Firing == {i \in 1..4 : C12_Holds[i]}

\* C12: the recommendation is exactly the messages of the rules whose
\* condition holds (RAG faithfulness < 0.6; RAG answer_relevancy < 0.6; LLM
\* answer_relevancy > RAG answer_relevancy + 0.2; context_precision < 0.6),
\* each rule decided on its own, in that order; the "system performing well"
\* message is there if and only if no rule fires.
C12_RecommendationRules ==
    v_op = "recommend" =>
        /\ (\E i \in 1..Len(v_out) :
                v_out[i] = "Sistema funcionando bem - manter configuracao atual")
              <=> C12_Firing = {}
        /\ C12_Firing = {} => Len(v_out) = 1
        /\ C12_Firing # {} =>
              /\ Len(v_out) = Cardinality(C12_Firing)
              /\ \A i \in C12_Firing :
                    v_out[Cardinality({j \in C12_Firing : j <= i})] = C12_Messages[i]

\* all four rules fire at once
C12_Witness ==
    /\ v_op = "recommend"
    /\ C12_Firing = 1..4
    /\ v_out = C12_Messages

\* no rule fires
C12_WellWitness ==
    /\ v_op = "recommend"
    /\ C12_Firing = {}
    /\ v_out = <<"Sistema funcionando bem - manter configuracao atual">>

\* the stages of one evaluate_single_question call, in the order C13 gives
C13_Order ==
    <<"COLLECT_RAG_DATA", "COLLECT_LLM_DATA", "SCORE_RAG", "SCORE_LLM",
      "INTERPRET", "COMPARE", "RECOMMEND", "DONE">>

\* the position of a stage in that order
C13_Index(stage) == CHOOSE i \in 1..Len(C13_Order) : C13_Order[i] = stage

\* the backend calls of a scoring pass that raised
C13_Failed(pass) == {m \in DOMAIN pass : pass[m].kind = "raise"}

\* one step of the call: it enters the next stage of the order; a scoring
\* stage whose backend calls fail leaves a complete ScoreSet with 0.0 for
\* every failed metric (all 0.0 when every call fails)
C13_StageStep ==
    /\ e_stage # "DONE"
    /\ e_stage' = C13_Order[C13_Index(e_stage) + 1]
    /\ e_stage = "SCORE_RAG" =>
          /\ DOMAIN e_rag_scores' = Metrics
          /\ \A m \in C13_Failed(e_outs'[1]) : e_rag_scores'[m] = 0
    /\ e_stage = "SCORE_LLM" =>
          /\ DOMAIN e_llm_scores' = {"answer_relevancy"}
          /\ \A m \in C13_Failed(e_outs'[2]) : e_llm_scores'[m] = 0

\* the result of a finished call has every entry, built from the ScoreSets
C13_Populated ==
    e_stage = "DONE" =>
        /\ DOMAIN e_result = {"evaluation_summary", "rag_evaluation", "llm_evaluation",
                              "comparison", "recommendation"}
        /\ e_result.rag_evaluation.scores = e_rag_scores
        /\ DOMAIN e_result.rag_evaluation.interpretation = Metrics
        /\ e_result.llm_evaluation.scores = e_llm_scores
        /\ DOMAIN e_result.llm_evaluation.interpretation = {"answer_relevancy"}
        /\ DOMAIN e_result.comparison = {"answer_relevancy", "overall"}
        /\ Len(e_result.recommendation) >= 1

\* C13: a call goes through COLLECT_RAG_DATA, COLLECT_LLM_DATA, SCORE_RAG,
\* SCORE_LLM, INTERPRET, COMPARE, RECOMMEND, DONE in that order, one stage at
\* a time; a failure inside SCORE_RAG or SCORE_LLM becomes 0.0 in that
\* stage's ScoreSet, the next stage can always be taken until DONE, and at
\* DONE the result is fully populated.
C13_StagesInOrder ==
    /\ [][C13_StageStep]_vars
    /\ [](e_stage # "DONE" => ENABLED NextEval)
    /\ []C13_Populated

\* a finished call whose RAG and LLM scoring both failed at every backend call
C13_Witness ==
    /\ e_stage = "DONE"
    /\ Len(e_outs) = 2
    /\ e_outs[1] # <<>> /\ C13_Failed(e_outs[1]) = Metrics
    /\ e_outs[2] # <<>> /\ C13_Failed(e_outs[2]) = {"answer_relevancy"}
    /\ e_rag_scores = ZeroScores
    /\ e_llm_scores["answer_relevancy"] = 0
    /\ "recommendation" \in DOMAIN e_result

\* the retriever or the model raised while the answers were collected
C14_CollectionFailed ==
    \/ \E i \in 1..Len(e_queries) : QueryRaised(e_queries[i])
    \/ \E i \in 1..Len(e_invs) : e_invs[i].kind = "raise"

\* C14: when the retriever or the model raises during data collection, the
\* call short-circuits: once collection is over the call is finished, no
\* scoring, interpretation, comparison or recommendation was performed, and
\* the result is exactly {error, question, timestamp}.
C14_CollectionFailureShortCircuits ==
    (C14_CollectionFailed /\ e_stage \notin {"COLLECT_RAG_DATA", "COLLECT_LLM_DATA"}) =>
        /\ e_stage = "DONE"
        /\ e_rag_scores = <<>> /\ e_llm_scores = <<>> /\ e_calls = <<>>
        /\ DOMAIN e_result = {"error", "question", "timestamp"}

\* what the code does instead: a call whose model raised in both answer
\* paths finishes with scores, comparison and recommendation
C14_ScoredAfterFailure ==
    /\ e_stage = "DONE"
    /\ e_queries[1].kind = "docs"
    /\ \A i \in 1..Len(e_invs) : e_invs[i].kind = "raise"
    /\ e_calls # <<>>
    /\ DOMAIN e_result = {"evaluation_summary", "rag_evaluation", "llm_evaluation",
                          "comparison", "recommendation"}

\* the retriever's exception left the try statement of the call that has
\* just returned
C15_RetrieverRaised == r_retr # <<>> /\ QueryRaised(r_retr[Len(r_retr)])

\* C15: a retriever exception during answer_question is re-raised to the
\* caller and not turned into a returned answer string, whereas in
\* answer_question_simple it is absorbed into a returned error string.
C15_RetrieverFailureReraised ==
    /\ (r_method = "answer_question" /\ C15_RetrieverRaised) =>
          r_result.raised
    /\ (r_method = "answer_question_simple" /\ C15_RetrieverRaised) =>
          /\ ~r_result.raised
          /\ r_result.answer = ErroAoProcessar(r_retr[Len(r_retr)].text)

\* what the code does instead: answer_question returns the error string
C15_CitedPathAbsorbs ==
    /\ r_method = "answer_question"
    /\ C15_RetrieverRaised
    /\ ~r_result.raised
    /\ r_result.answer = ErroAoProcessar(r_retr[Len(r_retr)].text)

\* text t ends with the message msg
C16_EndsWith(t, msg) ==
    /\ Len(t.id) >= Len(msg.id)
    /\ SubSeq(t.id, Len(t.id) - Len(msg.id) + 1, Len(t.id)) = msg.id
    /\ TextLen(t) >= TextLen(msg)

\* the model was invoked and raised during the call that has just returned
C16_ModelRaised == r_llm # <<>> /\ r_llm[1].kind = "raise"

\* C16: when the model's invoke raises inside LLMService.answer_question,
\* RAGService.answer_question or RAGService.answer_question_simple, the
\* method returns normally, and what it returns is a visible error string
\* that contains the failure message.
C16_ModelFailureAbsorbed ==
    C16_ModelRaised =>
        /\ r_method \in {"llm_answer_question", "answer_question", "answer_question_simple"}
        /\ ~r_result.raised
        /\ ~IsEmptyText(Strip(r_result.answer))
        /\ Head(r_result.answer.id) = "Erro ao processar pergunta:"
        /\ C16_EndsWith(r_result.answer, r_llm[1].text)

\* LLMService.answer_question whose model raised "timeout"
C16_Witness ==
    /\ r_method = "llm_answer_question"
    /\ C16_ModelRaised
    /\ r_llm[1].text = Txt("timeout", 0, 7, 0)
    /\ r_result.answer = ErroAoProcessar(Txt("timeout", 0, 7, 0))

\* answer_question_simple whose model raised after a successful retrieval
C16_SimpleWitness ==
    /\ r_method = "answer_question_simple"
    /\ C16_ModelRaised
    /\ r_retr[1].kind = "docs"
    /\ ~r_result.raised

RECURSIVE C17_Expected(_, _)
\* the text C17 expects from a response: the response itself when it is plain
\* text, otherwise its content, else its answer, else its text, else
\* str(response); with unwrap, a {"result": ...} dict is unwrapped first
C17_Expected(r, unwrap) ==
    IF r.shape = "str" THEN r.text
    ELSE IF r.shape = "message" THEN r.text
    ELSE IF unwrap /\ DictHas(r, "result") THEN C17_Expected(r.d["result"], unwrap)
    ELSE IF DictHas(r, "content") THEN r.d["content"]
    ELSE IF DictHas(r, "answer") THEN r.d["answer"]
    ELSE IF DictHas(r, "text") THEN r.d["text"]
    ELSE r.text

\* the model answered during the call that has just returned
C17_ModelAnswered == r_llm # <<>> /\ r_llm[1].kind = "response"

\* C17: the text extracted from a model response is the response itself when
\* it is plain text, otherwise the first present of content, answer, text (a
\* response with both content and answer yields content), otherwise
\* str(response); LLMService and RAGService agree, RAGService also unwrapping
\* {"result": ...} recursively.
C17_ExtractionPriority ==
    C17_ModelAnswered =>
        r_result.answer = C17_Expected(r_llm[1].resp, r_method # "llm_answer_question")

\* what the code does instead: a dict with both keys yields its answer value
C17_AnswerKeyWins ==
    /\ C17_ModelAnswered
    /\ DictHas(r_llm[1].resp, "answer") /\ DictHas(r_llm[1].resp, "content")
    /\ r_result.answer = r_llm[1].resp.d["answer"]
    /\ r_result.answer # r_llm[1].resp.d["content"]

\* C18: no external call is retried: within one answer call the retriever is
\* queried at most once and the model is invoked at most once; after the
\* retriever query fails no second query is made, and the failure surfaces
\* as the degraded (error-string) answer.
C18_NoRetry ==
    r_method # "ready" =>
        /\ Len(r_retr) <= 1
        /\ Len(r_llm) <= 1
        /\ (r_retr # <<>> /\ QueryRaised(r_retr[1])) =>
              /\ r_llm = <<>>
              /\ r_result.answer = ErroAoProcessar(r_retr[1].text)

\* what the code does instead: a query that failed with AttributeError is
\* followed by a second query, whose documents are answered from
C18_SecondQueryAfterFailure ==
    /\ r_method = "answer_question"
    /\ Len(r_retr) = 2
    /\ r_retr[1].kind = "attr_error"
    /\ r_retr[2].kind = "docs"
    /\ r_llm # <<>> /\ r_llm[1].kind = "response"
    /\ r_result.answer = RagExtractText(r_llm[1].resp)

\* the scoring part of C18: within one scoring pass the metric backend is
\* invoked at most once per metric, and a metric whose call raised scores 0.0
C18_BackendOncePerMetric ==
    s_pass # "ready" =>
        /\ \A i, j \in 1..Len(s_calls) : s_calls[i].metric = s_calls[j].metric => i = j
        /\ \A m \in DOMAIN s_scores :
              (s_calls # <<>> /\ s_outs[m].kind = "raise") => s_scores[m] = 0

\* the retriever answered the call that has just returned with a string
C19_RetrieverReturnedString == r_retr # <<>> /\ r_retr[Len(r_retr)].kind = "string"

\* C19: when the retriever returns a string instead of a sequence of
\* documents, answer_question returns a visible error string, without raising
\* and without invoking the model.
C19_StringRetrievalRejected ==
    (r_method = "answer_question" /\ C19_RetrieverReturnedString) =>
        /\ ~r_result.raised
        /\ r_result.answer = ErroFormato
        /\ ~IsEmptyText(Strip(r_result.answer))
        /\ r_result.prompts = <<>>
        /\ r_llm = <<>>

\* answer_question whose retriever returned the string "index missing"
C19_Witness ==
    /\ r_method = "answer_question"
    /\ r_retr = <<Retrieval("string", <<>>, Txt("index missing", 0, 13, 0))>>
    /\ r_result.answer = ErroFormato
    /\ r_llm = <<>>

\* the RAG answer was generated by the model from a prompt
C20_RagPromptBuilt ==
    \/ e_stage = "COLLECT_LLM_DATA" /\ Len(e_prompts) = 1
    \/ e_stage \notin {"COLLECT_RAG_DATA", "COLLECT_LLM_DATA"} /\ Len(e_prompts) = 2

\* the documents placed in the prompt that generated the RAG answer
C20_PromptDocuments == IF C20_RagPromptBuilt THEN e_prompts[1] ELSE <<>>

\* the RAG-pass backend calls (they carry evidence; the LLM-pass call has none)
C20_RagPassCalls == {i \in 1..Len(e_calls) : e_calls[i].contexts # <<>>}

\* C20: within one evaluate_single_question call the evidence scored for the
\* RAG answer is exactly the sequence of documents placed in the prompt that
\* generated that answer, whatever the retriever does on successive queries:
\* answer and evidence come from a single retrieval.
C20_EvidenceIsPromptDocuments ==
    e_stage # "COLLECT_RAG_DATA" =>
        /\ e_rag_data.contexts = C20_PromptDocuments
        /\ \A i \in C20_RagPassCalls :
              e_calls[i].contexts = CleanContexts(C20_PromptDocuments)

\* what the code does instead: the answer was generated from one document
\* and is scored against two others, returned by the second query
C20_EvidenceFromSecondQuery ==
    /\ e_stage = "DONE"
    /\ Len(e_queries) = 2
    /\ e_queries[1] = Retrieval("docs", <<DocNoMeta>>, NoText)
    /\ e_queries[2] = Retrieval("docs", <<DocFull, DocFull>>, NoText)
    /\ e_prompts[1] = PageContents(<<DocNoMeta>>)
    /\ e_rag_data.contexts = PageContents(<<DocFull, DocFull>>)
    /\ C20_RagPassCalls # {}
    /\ \A i \in C20_RagPassCalls :
          e_calls[i].contexts = CleanContexts(PageContents(<<DocFull, DocFull>>))

\* both answers have been scored
C21_Scored == e_stage \in {"INTERPRET", "COMPARE", "RECOMMEND", "DONE"}

\* the model raised while answer_question_simple produced the RAG answer
C21_RagModelFailed == Len(e_invs) = 2 /\ e_invs[1].kind = "raise"

\* the model raised while LLMService.answer_question produced the LLM answer
C21_LlmModelFailed == e_invs # <<>> /\ e_invs[Len(e_invs)].kind = "raise"

\* C21: when the model invocation fails while the RAG answer or the LLM
\* answer is produced, so that the answer is the service's error string, the
\* metric backend is not invoked on that error string and the ScoreSet of
\* that path is 0.0 for every metric.
C21_ErrorAnswerNotScored ==
    C21_Scored =>
        /\ C21_RagModelFailed =>
              /\ e_outs[1] = <<>>
              /\ \A i \in 1..Len(e_calls) : e_calls[i].contexts = <<>>
              /\ e_rag_scores = ZeroScores
        /\ C21_LlmModelFailed =>
              /\ e_outs[2] = <<>>
              /\ \A i \in 1..Len(e_calls) : e_calls[i].contexts # <<>>
              /\ e_llm_scores = [m \in {"answer_relevancy"} |-> 0]

\* what the code does instead: both error strings are sent to the backend,
\* which scores them 0.9
C21_ErrorStringScored ==
    /\ e_stage = "DONE"
    /\ C21_RagModelFailed /\ C21_LlmModelFailed
    /\ e_rag_data.answer = ErroAoProcessar(Txt("timeout", 0, 7, 0))
    /\ e_llm_answer = ErroAoProcessar(Txt("timeout", 0, 7, 0))
    /\ Len(e_calls) = 4
    /\ \A i \in 1..Len(e_calls) :
          e_calls[i].answer = Strip(ErroAoProcessar(Txt("timeout", 0, 7, 0)))
    /\ e_rag_scores["faithfulness"] = 9000
    /\ e_llm_scores["answer_relevancy"] = 9000

\* the recommendation of the result is the single "performing well" message
C22_PerformingWell ==
    v_out.recommendation = <<"Sistema funcionando bem - manter configuracao atual">>

\* the overall verdict of the result is "RAG more reliable"
C22_MoreReliable == v_out.comparison["overall"].text = "RAG oferece maior confiabilidade"

\* the overall verdict of the result is the "check document quality" warning
C22_Warning == v_out.comparison["overall"].text = "RAG pode ter problemas de fidelidade"

\* C22 as stated: whenever the recommendation is the single "performing
\* well" message, the overall verdict is "RAG more reliable" and not the
\* "check document quality" warning.
C22_VerdictAgreesWithRecommendation ==
    (v_op = "verdict" /\ C22_PerformingWell) => (C22_MoreReliable /\ ~C22_Warning)

\* C22 amended: whenever the recommendation is the single "performing well"
\* message, RAG faithfulness is at least 0.6; the overall verdict is "RAG more
\* reliable" exactly when RAG faithfulness is at least 0.7 and the "check
\* document quality" warning otherwise, so the warning accompanies the
\* "performing well" message exactly when faithfulness lies in [0.6, 0.7).
C22_VerdictAndRecommendation ==
    v_op = "verdict" =>
        /\ C22_PerformingWell => v_rag["faithfulness"] >= 6000
        /\ C22_MoreReliable <=> v_rag["faithfulness"] >= 7000
        /\ C22_Warning <=> v_rag["faithfulness"] < 7000
        /\ (C22_PerformingWell /\ C22_Warning) =>
              (v_rag["faithfulness"] >= 6000 /\ v_rag["faithfulness"] < 7000)
        /\ (C22_PerformingWell /\ v_rag["faithfulness"] >= 7000) => C22_MoreReliable

\* faithfulness 0.6999 with every other score at 0.8: "performing well"
\* together with the warning
C22_Witness ==
    /\ v_op = "verdict"
    /\ v_rag["faithfulness"] = 6999
    /\ v_rag["answer_relevancy"] = 8000
    /\ v_rag["context_precision"] = 8000
    /\ v_llm["answer_relevancy"] = 8000
    /\ C22_PerformingWell
    /\ C22_Warning

====
